---- MODULE Spec2Model ----
(***************************************************************************)
(* A model of the socket.io server core: the room registry (two mirrored   *)
(* maps), the sid registry, the channel life cycle with the connection and *)
(* disconnection hooks, the broadcasts and the emission tasks they spawn.  *)
(*                                                                         *)
(* A Go map is a function whose DOMAIN is the set of keys present, so "key *)
(* present with an empty bucket" and "key absent" are different states.    *)
(* A sync.RWMutex held for writing covers one whole action (the critical   *)
(* section is one step); a broadcast holds its read lock over several      *)
(* steps, because the tasks it spawns run while it still holds the lock.   *)
(***************************************************************************)
EXTENDS Integers, Sequences, FiniteSets, TLC

\* ------------------------------------------------------------ bounds
NChans == 2
NRooms == 2
MaxBcasts == 1
MaxPings == 1
MaxAcks == 2
MaxReplies == 2
NTasks == 2

Chans == 1..NChans
RoomNames == 1..NRooms
Events == 1..(MaxBcasts + 1)
Callers == 1..MaxAcks
Repliers == 1..MaxReplies
Tasks == 1..NTasks
\* a Channel value whose server field was never set (no SetupEventLoop made it)
Detached == 0

\* ------------------------------------------------- protocol constants
CONNECT == 0
EVENT == 2
DefaultNsp == "/"
OpenMsg == "0"
PingMsg == "2"
CommonMsg == "4"
Protocols == {"Protocol3", "Protocol4"}

VARIABLES
  channels,       \* Server.channels: room -> set of channels
  rooms,          \* Server.rooms: channel -> set of rooms
  sids,           \* Server.sids: sid -> channel
  binaryMessage,  \* Server.tr.BinaryMessage, as NewServer was given it
  st,             \* per channel: "New" (not created), "Alive", "Closing", "Closed"
  hook,           \* per channel: "none", "pending" (workers started, connection
                  \*   hook not yet run by SetupEventLoop), "done"
  dsid,           \* per channel: a spawned deleteSid task has not run yet
  out,            \* per channel: the items enqueued on c.out, in enqueue order
  bc,             \* the broadcasting task
  nb,             \* number of broadcasts started so far
  emits,          \* emits[c][e]: spawned, not yet run "go cn.Emit" tasks
  s4,             \* the scenario that is run, if any: its phase, and for S4
                  \*   who plays C1, C2, r1, r2
  counter,        \* ackProcessor.counter of one channel
  resultWaitersMap, \* ackProcessor.resultWaitersMap: ack id -> waiter
  call,           \* per emit-with-ack call: its position, ack id and outcomes
  dl,             \* per task that handles inbound ACK replies: the position of
                  \*   the delivery it is in
  ackClosed,      \* the channel of the ackProcessor was closed
  ret,            \* what the last call of a query or of an operation on a
                  \*   detached channel returned to its caller
  headers,        \* Server.headers: header name -> value
  lk              \* per task: the operation it is in, its position in it, and
                  \*   the registry locks it holds, in the order it took them

regVars == <<channels, rooms>>
chanVars == <<st, hook, dsid>>
bcVars == <<bc, nb, emits>>
ackVars == <<counter, resultWaitersMap, call, dl, ackClosed>>
serverVars == <<channels, rooms, sids, binaryMessage, st, hook, dsid, out,
                bc, nb, emits, s4>>
apiVars == <<ret, headers, lk>>
vars == <<serverVars, ackVars, apiVars>>

\* ------------------------------------------------------- map helpers
Has(m, k) == k \in DOMAIN m
MapPut(m, k, v) == [x \in DOMAIN m \cup {k} |-> IF x = k THEN v ELSE m[x]]
MapDelete(m, k) == [x \in DOMAIN m \ {k} |-> m[x]]
\* len(m[k]) and ranging over m[k] for a key that may be absent
Bucket(m, k) == IF Has(m, k) THEN m[k] ELSE {}

\* ------------------------------------------------------------- sids
\* generateNewId: a fresh opaque string per channel
generateNewId(c) == <<"sid", c>>
\* Channel.Id(): the sid of the open header
Id(c) == generateNewId(c)
IsAlive(c) == st[c] = "Alive"

\* ----------------------------------------------------- outbound items
OpenFrame(sid) ==
  [form |-> "text", prefix |-> <<OpenMsg>>, type |-> -1, nsp |-> "", sid |-> sid, ev |-> 0]
ConnectPack(sid) ==
  [form |-> "MsgPack", prefix |-> <<>>, type |-> CONNECT, nsp |-> DefaultNsp, sid |-> sid, ev |-> 0]
ConnectFrame(sid) ==
  [form |-> "text", prefix |-> <<CommonMsg, OpenMsg>>, type |-> -1, nsp |-> "", sid |-> sid, ev |-> 0]
EventFrame(e) ==
  [form |-> "text", prefix |-> <<CommonMsg, "2">>, type |-> EVENT, nsp |-> "", sid |-> <<>>, ev |-> e]
PingFrame ==
  [form |-> "text", prefix |-> <<PingMsg>>, type |-> -1, nsp |-> "", sid |-> <<>>, ev |-> 0]

SendOpenSequenceConnectFirst(c, binary) ==
  <<IF binary THEN ConnectPack(Id(c)) ELSE ConnectFrame(Id(c)), OpenFrame(Id(c))>>
\* Server.SendOpenSequence: the two items it enqueues, in order
SendOpenSequence(c, binary) ==
  <<OpenFrame(Id(c)), IF binary THEN ConnectPack(Id(c)) ELSE ConnectFrame(Id(c))>>

\* ---------------------------------------------------- room registry
\* Channel.Join, on Server.channels and on Server.rooms
JoinChannels(cn, c, room) == MapPut(cn, room, Bucket(cn, room) \cup {c})
JoinRooms(byRoom, c, room) == MapPut(byRoom, c, Bucket(byRoom, c) \cup {room})

\* Channel.Leave, on Server.channels (an emptied bucket is deleted) and on
\* Server.rooms (the channel's entry is kept, also when it becomes empty)
LeaveChannelsNoPrune(cn, c, room) ==
  IF Has(cn, room) THEN [cn EXCEPT ![room] = @ \ {c}] ELSE cn
LeaveRoomsKeep(byRoom, c, room) == byRoom
LeaveChannels(cn, c, room) ==
  IF Has(cn, room)
  THEN IF cn[room] \ {c} = {}
       THEN MapDelete(cn, room)
       ELSE [cn EXCEPT ![room] = @ \ {c}]
  ELSE cn
LeaveRooms(byRoom, c, room) ==
  IF Has(byRoom, c) THEN [byRoom EXCEPT ![c] = @ \ {room}] ELSE byRoom

CleanupChannelsDropRooms(cn, byRoom, c) ==
  IF Has(byRoom, c) THEN [r \in DOMAIN cn \ byRoom[c] |-> cn[r]] ELSE cn
\* onDisconnectCleanup, on Server.channels: the loop over the rooms of c
CleanupChannels(cn, byRoom, c) ==
  IF Has(byRoom, c)
  THEN [r \in {x \in DOMAIN cn : ~(x \in byRoom[c] /\ cn[x] \ {c} = {})} |->
          IF r \in byRoom[c] THEN cn[r] \ {c} ELSE cn[r]]
  ELSE cn
CleanupRoomsKeepEntry(byRoom, c) ==
  IF Has(byRoom, c) THEN [byRoom EXCEPT ![c] = {}] ELSE byRoom
CleanupRooms(byRoom, c) == IF Has(byRoom, c) THEN MapDelete(byRoom, c) ELSE byRoom

Members(r) == Bucket(channels, r)
RoomsOf(c) == Bucket(rooms, c)
Amount(room) == Cardinality(Members(room))
AmountOfRooms == Cardinality(DOMAIN channels)
AmountOfSids == Cardinality(DOMAIN sids)

\* ------------------------------------------------------------- locks
\* channelsLock / sidsLock are read-held by the broadcasting task while it loops
ChannelsRLocked == bc.pc = "loop" /\ bc.kind \in {"channel", "server"}
SidsRLocked == bc.pc = "loop" /\ bc.kind = "all"

IdleBc == [pc |-> "idle", kind |-> "none", sender |-> 0, room |-> 0, todo |-> {}, ev |-> 0]

S4Off == [phase |-> "off", c1 |-> 0, c2 |-> 0, r1 |-> 0, r2 |-> 0]
\* the callers issue MaxBcasts broadcasts, and one more in the scenario of
\* consecutive broadcasts
BcastCap == IF s4.phase = "order" THEN MaxBcasts + 1 ELSE MaxBcasts

\* -------------------------------------------------------------- Init
IdleCall == [pc |-> "idle", id |-> 0, result |-> "none", n |-> 0]
IdleDl == [pc |-> "idle", id |-> 0, w |-> 0]

\* a channel's ackProcessor as initChannel leaves it, and nobody using it yet
InitAckProcessor ==
  /\ counter = 0
  /\ resultWaitersMap = <<>>
  /\ call = [k \in Callers |-> IdleCall]
  /\ dl = [j \in Repliers |-> IdleDl]
  /\ ackClosed = FALSE

\* nothing was returned to any caller yet
NoRet == [op |-> "none", server |-> "nil", n |-> 0, list |-> <<>>, err |-> "nil"]
\* a task that is in no operation and holds no lock
IdleLk == [op |-> "none", pc |-> 0, held |-> <<>>]

\* NewServer: empty registries, no channel yet
InitServer ==
  /\ ret = NoRet
  /\ headers = <<>>
  /\ lk = [t \in Tasks |-> IdleLk]
  /\ channels = <<>>
  /\ rooms = <<>>
  /\ sids = <<>>
  /\ binaryMessage \in BOOLEAN
  /\ st = [c \in Chans |-> "New"]
  /\ hook = [c \in Chans |-> "none"]
  /\ dsid = [c \in Chans |-> FALSE]
  /\ out = [c \in Chans |-> <<>>]
  /\ bc = IdleBc
  /\ nb = 0
  /\ emits = [c \in Chans |-> [e \in Events |-> 0]]
  /\ InitAckProcessor

Init == InitServer /\ s4 = S4Off

\* ----------------------------------------------------------- actions
\* Server.SetupEventLoop up to and including "go outLoop": the channel is
\* created alive, the open sequence is enqueued, both workers are started
SetupEventLoop(c) ==
  /\ st[c] = "New"
  /\ st' = [st EXCEPT ![c] = "Alive"]
  /\ out' = [out EXCEPT ![c] = SendOpenSequence(c, binaryMessage)]
  /\ hook' = [hook EXCEPT ![c] = "pending"]
  /\ UNCHANGED <<regVars, sids, binaryMessage, dsid, bcVars, s4, ackVars, apiVars>>

onConnectStoreNoStore(c) ==
  /\ hook[c] = "pending"
  /\ ~SidsRLocked
  /\ hook' = [hook EXCEPT ![c] = "done"]
  /\ UNCHANGED <<regVars, sids, binaryMessage, st, dsid, out, bcVars, s4, ackVars, apiVars>>

\* s.callLoopEvent(c, OnConnection) at the end of SetupEventLoop: onConnectStore.
\* On a v4 connection it also spawns SchedulePing: from here on the SchedulePing
\* action may enqueue pings (whether the connection is v4 is the peer's choice).
onConnectStore(c) ==
  /\ hook[c] = "pending"
  /\ ~SidsRLocked
  /\ sids' = MapPut(sids, Id(c), c)
  /\ hook' = [hook EXCEPT ![c] = "done"]
  /\ UNCHANGED <<regVars, binaryMessage, st, dsid, out, bcVars, s4, ackVars, apiVars>>

\* closeChannel, first half: the channel stops being alive (peer close, read
\* or write error, idle timeout, Channel.Close)
closeChannel(c) ==
  /\ st[c] = "Alive"
  /\ st' = [st EXCEPT ![c] = "Closing"]
  /\ UNCHANGED <<regVars, sids, binaryMessage, hook, dsid, out, bcVars, s4, ackVars, apiVars>>

\* closeChannel, second half: the disconnection hook onDisconnectCleanup
onDisconnectCleanup(c) ==
  /\ st[c] = "Closing"
  /\ ~ChannelsRLocked
  /\ channels' = CleanupChannels(channels, rooms, c)
  /\ rooms' = CleanupRooms(rooms, c)
  /\ dsid' = [dsid EXCEPT ![c] = TRUE]
  /\ st' = [st EXCEPT ![c] = "Closed"]
  /\ UNCHANGED <<sids, binaryMessage, hook, out, bcVars, s4, ackVars, apiVars>>

\* the task spawned by "go deleteSid(c)"
deleteSid(c) ==
  /\ dsid[c]
  /\ ~SidsRLocked
  /\ sids' = MapDelete(sids, Id(c))
  /\ dsid' = [dsid EXCEPT ![c] = FALSE]
  /\ UNCHANGED <<regVars, binaryMessage, st, hook, out, bcVars, s4, ackVars, apiVars>>

\* Channel.Join of a channel that has a server (any created channel)
Join(c, room) ==
  /\ st[c] # "New"
  /\ ~ChannelsRLocked
  /\ channels' = JoinChannels(channels, c, room)
  /\ rooms' = JoinRooms(rooms, c, room)
  /\ UNCHANGED <<sids, binaryMessage, chanVars, out, bcVars, s4, ackVars, apiVars>>

\* Channel.Leave
Leave(c, room) ==
  /\ st[c] # "New"
  /\ ~ChannelsRLocked
  /\ channels' = LeaveChannels(channels, c, room)
  /\ rooms' = LeaveRooms(rooms, c, room)
  /\ UNCHANGED <<sids, binaryMessage, chanVars, out, bcVars, s4, ackVars, apiVars>>

\* ------------------------------------------------------- broadcasts
BroadcastSpawnsAlive(kind, sender, cn) == IsAlive(cn)
\* the condition under which a broadcast loop spawns "go cn.Emit(method, args)"
BroadcastSpawns(kind, sender, cn) ==
  /\ kind = "channel" => Id(cn) # Id(sender)
  /\ IsAlive(cn)

\* the task a broadcast becomes after taking its read lock and reading the
\* member set: looping over it, or returned at once when the room is unknown
BroadcastLoop(kind, sender, room, ok, members) ==
  IF ok
  THEN [pc |-> "loop", kind |-> kind, sender |-> sender, room |-> room,
        todo |-> members, ev |-> nb + 1]
  ELSE IdleBc

\* Channel.BroadcastTo, up to the loop
ChannelBroadcastTo(c, room) ==
  /\ st[c] # "New"
  /\ bc.pc = "idle"
  /\ nb < BcastCap
  /\ nb' = nb + 1
  /\ bc' = BroadcastLoop("channel", c, room, Has(channels, room), Bucket(channels, room))
  /\ UNCHANGED <<regVars, sids, binaryMessage, chanVars, out, emits, s4, ackVars, apiVars>>

\* Server.BroadcastTo, up to the loop
ServerBroadcastTo(room) ==
  /\ bc.pc = "idle"
  /\ nb < BcastCap
  /\ nb' = nb + 1
  /\ bc' = BroadcastLoop("server", 0, room, Has(channels, room), Bucket(channels, room))
  /\ UNCHANGED <<regVars, sids, binaryMessage, chanVars, out, emits, s4, ackVars, apiVars>>

\* Server.BroadcastToAll, up to the loop
BroadcastToAll ==
  /\ bc.pc = "idle"
  /\ nb < BcastCap
  /\ nb' = nb + 1
  /\ bc' = BroadcastLoop("all", 0, 0, TRUE, {sids[k] : k \in DOMAIN sids})
  /\ UNCHANGED <<regVars, sids, binaryMessage, chanVars, out, emits, s4, ackVars, apiVars>>

\* one iteration of the loop of a broadcast, in the map's iteration order
BroadcastIter(cn) ==
  /\ bc.pc = "loop"
  /\ cn \in bc.todo
  /\ bc' = [bc EXCEPT !.todo = @ \ {cn}]
  /\ emits' = IF BroadcastSpawns(bc.kind, bc.sender, cn)
              THEN [emits EXCEPT ![cn][bc.ev] = @ + 1]
              ELSE emits
  /\ UNCHANGED <<regVars, sids, binaryMessage, chanVars, out, nb, s4, ackVars, apiVars>>

\* the loop is over: the deferred RUnlock, and the broadcast returns
BroadcastReturn ==
  /\ bc.pc = "loop"
  /\ bc.todo = {}
  /\ bc' = IdleBc
  /\ UNCHANGED <<regVars, sids, binaryMessage, chanVars, out, nb, emits, s4, ackVars, apiVars>>

\* a spawned "go cn.Emit(method, args)" runs: the event is enqueued on cn.out
Emit(cn, e) ==
  /\ emits[cn][e] > 0
  /\ emits' = [emits EXCEPT ![cn][e] = @ - 1]
  /\ out' = [out EXCEPT ![cn] = Append(@, EventFrame(e))]
  /\ UNCHANGED <<regVars, sids, binaryMessage, chanVars, bc, nb, s4, ackVars, apiVars>>

\* the ping scheduler of a v4 channel enqueues a ping
NPings(c) == Cardinality({i \in 1..Len(out[c]) : out[c][i] = PingFrame})
SchedulePing(c) ==
  /\ hook[c] = "done"
  /\ \E p \in Protocols : p = "Protocol4"
  /\ IsAlive(c)
  /\ NPings(c) < MaxPings
  /\ out' = [out EXCEPT ![c] = Append(@, PingFrame)]
  /\ UNCHANGED <<regVars, sids, binaryMessage, chanVars, bcVars, s4, ackVars, apiVars>>

\* ------------------------------------------------------ specification
SetupEventLoopStep == \E c \in Chans : SetupEventLoop(c)
onConnectStoreStep == \E c \in Chans : onConnectStore(c)
closeChannelStep == \E c \in Chans : closeChannel(c)
onDisconnectCleanupStep == \E c \in Chans : onDisconnectCleanup(c)
deleteSidStep == \E c \in Chans : deleteSid(c)
JoinStep == \E c \in Chans, room \in RoomNames : Join(c, room)
LeaveStep == \E c \in Chans, room \in RoomNames : Leave(c, room)
ChannelBroadcastToStep == \E c \in Chans, room \in RoomNames : ChannelBroadcastTo(c, room)
ServerBroadcastToStep == \E room \in RoomNames : ServerBroadcastTo(room)
BroadcastIterStep == \E cn \in Chans : BroadcastIter(cn)
EmitStep == \E cn \in Chans, e \in Events : Emit(cn, e)
SchedulePingStep == \E c \in Chans : SchedulePing(c)

Next ==
  \/ SetupEventLoopStep
  \/ onConnectStoreStep
  \/ closeChannelStep
  \/ onDisconnectCleanupStep
  \/ deleteSidStep
  \/ JoinStep
  \/ LeaveStep
  \/ ChannelBroadcastToStep
  \/ ServerBroadcastToStep
  \/ BroadcastToAll
  \/ BroadcastIterStep
  \/ BroadcastReturn
  \/ EmitStep
  \/ SchedulePingStep

\* the whole server
Spec == Init /\ [][Next]_vars

\* the registries and the channel life cycle alone: the operations that write
\* Server.channels, Server.rooms and Server.sids
NextRegistry ==
  \/ SetupEventLoopStep
  \/ onConnectStoreStep
  \/ closeChannelStep
  \/ onDisconnectCleanupStep
  \/ deleteSidStep
  \/ JoinStep
  \/ LeaveStep

\* the transport's framing mode does not reach the registries: text mode is taken
InitRegistry == Init /\ binaryMessage = FALSE

RegistrySpec == InitRegistry /\ [][NextRegistry]_vars

\* ============================================================ claims
\* C1: the two maps of the room registry mirror each other: a channel is in
\* the bucket of a room iff the room is in the membership set of the channel.
C1_Bimap ==
  /\ DOMAIN channels \subseteq RoomNames
  /\ DOMAIN rooms \subseteq Chans
  /\ \A r \in RoomNames, c \in Chans : c \in Members(r) <=> r \in RoomsOf(c)

\* joins, a leave and a disconnect cleanup have all happened
C1_Witness ==
  \E c, d \in Chans, r, q \in RoomNames :
    /\ st[c] = "Closed" /\ ~Has(rooms, c)
    /\ r # q /\ Has(rooms, d) /\ rooms[d] = {r} /\ Members(r) = {d}
    /\ ~Has(channels, q)

\* C2: no key of the room -> channels map has an empty bucket, and
\* AmountOfRooms is the number of rooms some channel is a member of.
C2_NoEmptyRoom ==
  /\ \A r \in DOMAIN channels : channels[r] # {}
  /\ AmountOfRooms = Cardinality({r \in RoomNames : \E c \in Chans : r \in RoomsOf(c)})

\* a room was created by a join and destroyed by the leave of its last member,
\* while another room still exists
C2_Witness ==
  \E c, d \in Chans :
    /\ Has(rooms, c) /\ rooms[c] = {}
    /\ Has(rooms, d) /\ rooms[d] # {}
    /\ AmountOfRooms = 1

\* C3: once the disconnection hook of a channel has run, its sid is eventually
\* absent from the sid registry and absent forever.  Stated for the states in
\* which nothing touches the entry any more (the connection hook, the
\* disconnection hook and the spawned deleteSid have all run): there "eventually
\* absent, and then forever" means absent now.
C3_ClosedSidAbsent ==
  \A c \in Chans :
    (st[c] = "Closed" /\ ~dsid[c] /\ hook[c] = "done") => ~Has(sids, Id(c))

\* the sid registry holds exactly one entry for channel c: its own sid
OneSidEntry(c) ==
  /\ Has(sids, Id(c))
  /\ sids[Id(c)] = c
  /\ \A k \in DOMAIN sids : sids[k] = c => k = Id(c)

C7_CleanupFrame ==
  [][\A c \in Chans :
       /\ (st[c] = "Closing" /\ st'[c] = "Closed") =>
            /\ ~Has(rooms', c)
            /\ \A r \in RoomNames :
                 Bucket(channels', r) = Bucket(channels, r) \ {c}
            /\ \A d \in Chans \ {c} :
                 Has(rooms', d) = Has(rooms, d) /\ Bucket(rooms', d) = Bucket(rooms, d)
            /\ sids' = sids
       /\ (dsid[c] /\ ~dsid'[c]) =>
            /\ ~Has(sids', Id(c))
            /\ DOMAIN sids' \ {Id(c)} = DOMAIN sids \ {Id(c)}
            /\ \A k \in DOMAIN sids' : sids'[k] = sids[k]
            /\ channels' = channels /\ rooms' = rooms
    ]_vars

\* cleanup and deleteSid have run for c, after c shared a room with d
C7_Witness ==
  \E c, d \in Chans, r \in RoomNames :
    /\ c # d
    /\ st[c] = "Closed" /\ ~dsid[c] /\ hook[c] = "done" /\ ~Has(sids, Id(c))
    /\ Has(sids, Id(d)) /\ Members(r) = {d}

\* C5: no emission task spawned by a broadcast enqueues an event on the
\* outbound queue of a channel that is not alive at the time of the enqueue.
C5_NoEnqueueOnClosed ==
  [][\A c \in Chans :
       (Len(out'[c]) = Len(out[c]) + 1 /\ out'[c][Len(out'[c])].type = EVENT)
         => IsAlive(c)
    ]_vars

\* emissions of event e to channel m: spawned and pending, or enqueued
Emitted(m, e) ==
  emits[m][e] + Cardinality({i \in 1..Len(out[m]) : out[m][i] = EventFrame(e)})

\* C6: while Channel.BroadcastTo of sender A loops over a room, A and the
\* channels outside the room are emitted nothing and nobody is emitted the
\* event twice; when the loop is over, every alive member other than A has been
\* emitted the event exactly once.
C6_BroadcastExcludesSender ==
  (bc.pc = "loop" /\ bc.kind = "channel") =>
    \A m \in Chans :
      /\ Emitted(m, bc.ev) <= 1
      /\ (m = bc.sender \/ m \notin Members(bc.room)) => Emitted(m, bc.ev) = 0
      /\ (bc.todo = {} /\ m # bc.sender /\ m \in Members(bc.room) /\ IsAlive(m))
           => Emitted(m, bc.ev) = 1

\* the loop of a broadcast by a member of the room is over, and another member
\* of the room has been emitted the event
C6_Witness ==
  /\ bc.pc = "loop" /\ bc.kind = "channel" /\ bc.todo = {}
  /\ bc.sender \in Members(bc.room)
  /\ \E m \in Members(bc.room) : m # bc.sender /\ Emitted(m, bc.ev) = 1

\* C9: the first two items enqueued on a channel are the open header and the
\* CONNECT item (a MsgPack record in binary mode, else the text frame "40"),
\* both with the sid of the channel; pings and events come after them only.
C9_OpenHandshake ==
  \A c \in Chans :
    IF st[c] = "New"
    THEN out[c] = <<>>
    ELSE /\ Len(out[c]) >= 2
         /\ out[c][1].form = "text" /\ out[c][1].prefix = <<"0">>
         /\ IF binaryMessage
            THEN /\ out[c][2].form = "MsgPack"
                 /\ out[c][2].type = 0
                 /\ out[c][2].nsp = "/"
            ELSE out[c][2].form = "text" /\ out[c][2].prefix = <<"4", "0">>
         /\ out[c][1].sid = Id(c) /\ out[c][2].sid = out[c][1].sid
         /\ \A i \in 3..Len(out[c]) :
              out[c][i] = PingFrame \/ out[c][i].type = EVENT

\* a binary-mode channel on which a ping and an event were enqueued
C9_Witness ==
  \E c \in Chans :
    /\ binaryMessage
    /\ \E i, j \in 3..Len(out[c]) : out[c][i] = PingFrame /\ out[c][j].type = EVENT

\* ------------------------------------------------------- scenario S4
\* Two channels C1, C2 are set up and join rooms r1, r2 (in any order); then C1
\* leaves r1; then C2 is closed.  The steps are the server's own actions; the
\* script only says which of them may run in which phase.
S4Players == {s4.c1, s4.c2}
S4RoomNames == {s4.r1, s4.r2}
S4AllJoined ==
  /\ \A c \in S4Players : hook[c] = "done"
  /\ \A c \in S4Players, r \in S4RoomNames : r \in RoomsOf(c)

InitS4 ==
  /\ InitServer
  /\ binaryMessage = FALSE
  /\ \E a, b \in Chans, x, y \in RoomNames :
       /\ a # b /\ x # y
       /\ s4 = [phase |-> "start", c1 |-> a, c2 |-> b, r1 |-> x, r2 |-> y]

S4Setup == s4.phase = "start" /\ \E c \in S4Players : SetupEventLoop(c)
S4Connect == s4.phase = "start" /\ \E c \in S4Players : onConnectStore(c)
S4Join ==
  /\ s4.phase = "start"
  /\ \E c \in S4Players, r \in S4RoomNames : r \notin RoomsOf(c) /\ Join(c, r)
S4Started ==
  /\ s4.phase = "start"
  /\ S4AllJoined
  /\ s4' = [s4 EXCEPT !.phase = "leave"]
  /\ UNCHANGED <<regVars, sids, binaryMessage, chanVars, out, bcVars, ackVars, apiVars>>
S4Leave == s4.phase = "leave" /\ s4.r1 \in RoomsOf(s4.c1) /\ Leave(s4.c1, s4.r1)
S4Left ==
  /\ s4.phase = "leave"
  /\ s4.r1 \notin RoomsOf(s4.c1)
  /\ s4' = [s4 EXCEPT !.phase = "close"]
  /\ UNCHANGED <<regVars, sids, binaryMessage, chanVars, out, bcVars, ackVars, apiVars>>
S4Close == s4.phase = "close" /\ closeChannel(s4.c2)
S4Cleanup == s4.phase = "close" /\ onDisconnectCleanup(s4.c2)
S4DeleteSid == s4.phase = "close" /\ deleteSid(s4.c2)

NextS4 ==
  \/ S4Setup
  \/ S4Connect
  \/ S4Join
  \/ S4Started
  \/ S4Leave
  \/ S4Left
  \/ S4Close
  \/ S4Cleanup
  \/ S4DeleteSid

SpecS4 == InitS4 /\ [][NextS4]_vars

\* the scenario has run to its end
S4Done == s4.phase = "close" /\ st[s4.c2] = "Closed"

\* C8, as claimed: at the end of S4 the room registry has no bucket for r1 and
\* none for r2, and the membership map is empty.
C8_S4AllGone ==
  S4Done => ~Has(channels, s4.r1) /\ ~Has(channels, s4.r2) /\ DOMAIN rooms = {}

\* C8, amended: at the end of S4 the room registry has no bucket for r1, the
\* bucket of r2 holds exactly C1, and the membership map holds exactly the
\* entry of C1, which is {r2}.
C8_S4Final ==
  S4Done =>
    /\ ~Has(channels, s4.r1)
    /\ Has(channels, s4.r2) /\ channels[s4.r2] = {s4.c1}
    /\ DOMAIN rooms = {s4.c1} /\ rooms[s4.c1] = {s4.r2}

C8_Witness == S4Done /\ ~dsid[s4.c2]

\* C15: no emission spawned by a broadcast enqueues its event on a recipient's
\* outbound queue while the broadcasting task still holds the read lock of the
\* registry it iterates (channelsLock, or sidsLock for BroadcastToAll).
C15_NoEnqueueUnderLock ==
  [][\A c \in Chans :
       (/\ Len(out'[c]) = Len(out[c]) + 1
        /\ out'[c][Len(out'[c])].type = EVENT
        /\ out'[c][Len(out'[c])].ev = bc.ev)
         => ~(ChannelsRLocked \/ SidsRLocked)
    ]_vars

\* ------------------------------------------- queries and their results
\* c.server: set by SetupEventLoop on every channel it creates, nil otherwise
server(c) == IF c \in Chans /\ st[c] # "New" THEN "Server" ELSE "nil"

Returned(op, srv, n, list, err) ==
  [op |-> op, server |-> srv, n |-> n, list |-> list, err |-> err]

ListResultsAny(cn, room) ==
  IF ~Has(cn, room) THEN {<<>>} ELSE [1..Cardinality(cn[room]) -> cn[room]]
\* Server.List: the slices it can return, one per iteration order of the bucket
ListResults(cn, room) ==
  IF ~Has(cn, room)
  THEN {<<>>}
  ELSE {l \in [1..Cardinality(cn[room]) -> cn[room]] :
          \A i, j \in 1..Cardinality(cn[room]) : i # j => l[i] # l[j]}

\* Server.List
ServerList(room) ==
  /\ \E l \in ListResults(channels, room) : ret' = Returned("List", "Server", 0, l, "nil")
  /\ UNCHANGED <<serverVars, ackVars, headers, lk>>

\* Server.Amount
ServerAmount(room) ==
  /\ ret' = Returned("Amount", "Server", Amount(room), <<>>, "nil")
  /\ UNCHANGED <<serverVars, ackVars, headers, lk>>

NotSetNoError(op, err) ==
  /\ ret' = Returned(op, "nil", 0, <<>>, "nil")
  /\ UNCHANGED <<serverVars, ackVars, headers, lk>>
\* what an operation returns at once on a channel without a server
NotSet(op, err) ==
  /\ ret' = Returned(op, "nil", 0, <<>>, err)
  /\ UNCHANGED <<serverVars, ackVars, headers, lk>>

\* Channel.Join, Channel.Leave, Channel.Amount, Channel.List,
\* Channel.BroadcastTo and Channel.Close, from their test of c.server on
ChannelJoin(c, room) ==
  IF server(c) = "nil" THEN NotSet("Join", "ErrorServerNotSet") ELSE Join(c, room)
ChannelLeave(c, room) ==
  IF server(c) = "nil" THEN NotSet("Leave", "ErrorServerNotSet") ELSE Leave(c, room)
ChannelAmount(c, room) ==
  IF server(c) = "nil" THEN NotSet("Amount", "nil") ELSE ServerAmount(room)
ChannelList(c, room) ==
  IF server(c) = "nil" THEN NotSet("List", "nil") ELSE ServerList(room)
ChannelBroadcast(c, room) ==
  IF server(c) = "nil" THEN NotSet("BroadcastTo", "nil") ELSE ChannelBroadcastTo(c, room)
ChannelClose(c) ==
  IF server(c) = "nil" THEN NotSet("Close", "nil") ELSE closeChannel(c)

\* the sids a caller may ask for: those of the channels, and one nobody has
AskedSids == {generateNewId(c) : c \in Chans \cup {Detached}}

GetChannelNoError(sid) ==
  /\ ret' = Returned("GetChannel", "Server", 0,
                     IF Has(sids, sid) THEN <<sids[sid]>> ELSE <<>>, "nil")
  /\ UNCHANGED <<serverVars, ackVars, headers, lk>>
\* Server.GetChannel
GetChannel(sid) ==
  /\ ret' = IF Has(sids, sid)
            THEN Returned("GetChannel", "Server", 0, <<sids[sid]>>, "nil")
            ELSE Returned("GetChannel", "Server", 0, <<>>, "ErrorConnectionNotFound")
  /\ UNCHANGED <<serverVars, ackVars, headers, lk>>

\* Server.AmountOfSids, called
CountSids ==
  /\ ret' = Returned("AmountOfSids", "Server", AmountOfSids, <<>>, "nil")
  /\ UNCHANGED <<serverVars, ackVars, headers, lk>>

ServerListStep == \E room \in RoomNames : ServerList(room)
DetachedJoin == \E room \in RoomNames : ChannelJoin(Detached, room)
DetachedLeave == \E room \in RoomNames : ChannelLeave(Detached, room)
DetachedAmount == \E room \in RoomNames : ChannelAmount(Detached, room)
DetachedList == \E room \in RoomNames : ChannelList(Detached, room)
DetachedBroadcast == \E room \in RoomNames : ChannelBroadcast(Detached, room)
DetachedClose == ChannelClose(Detached)
GetChannelStep == \E sid \in AskedSids : GetChannel(sid)

\* the room registry, its writers and its queries
NextList ==
  \/ SetupEventLoopStep
  \/ closeChannelStep
  \/ onDisconnectCleanupStep
  \/ JoinStep
  \/ LeaveStep
  \/ ServerListStep

ListSpec == InitRegistry /\ [][NextList]_vars

\* C11: Server.List returns the members of the room as they are when it holds
\* the read lock, each once, as many as Amount counts then (none for a room
\* without bucket); and no later Join, Leave or disconnect cleanup changes what
\* was returned.
C11_ListSnapshot ==
  /\ [][\A room \in RoomNames :
          /\ (ret'.op = "List" /\ ret' # ret /\ ServerList(room)) =>
               /\ Len(ret'.list) = Amount(room)
               /\ {ret'.list[i] : i \in 1..Len(ret'.list)} = Members(room)
               /\ \A i, j \in 1..Len(ret'.list) : i # j => ret'.list[i] # ret'.list[j]
               /\ ~Has(channels, room) => ret'.list = <<>>
      ]_vars
  /\ [][(channels' # channels \/ rooms' # rooms \/ st' # st) => ret' = ret]_vars

\* a list of two members was returned, and one of them has left the room since
\* by a disconnect cleanup
C11_Witness ==
  /\ ret.op = "List" /\ Len(ret.list) = 2
  /\ \E c \in Chans, room \in RoomNames :
       /\ st[c] = "Closed" /\ c \in {ret.list[i] : i \in 1..2}
       /\ \E d \in Chans : Members(room) = {d} /\ d \in {ret.list[i] : i \in 1..2}

\* the room registry and the operations on a channel without a server
NextDetached ==
  \/ SetupEventLoopStep
  \/ JoinStep
  \/ LeaveStep
  \/ DetachedJoin
  \/ DetachedLeave
  \/ DetachedAmount
  \/ DetachedList
  \/ DetachedBroadcast
  \/ DetachedClose

DetachedSpec == InitRegistry /\ [][NextDetached]_vars

\* C12: on a channel without a server Join and Leave return ErrorServerNotSet,
\* Amount returns 0, List returns an empty list, BroadcastTo and Close return at
\* once; none of them changes the room registry, the sid registry, a channel, a
\* queue or a broadcast, and the channel is in no registry.
C12_Detached ==
  /\ [][\A room \in RoomNames :
          /\ (ChannelJoin(Detached, room) \/ ChannelLeave(Detached, room)) =>
               ret'.err = "ErrorServerNotSet"
          /\ ChannelAmount(Detached, room) => ret'.n = 0 /\ ret'.err = "nil"
          /\ ChannelList(Detached, room) => ret'.list = <<>> /\ ret'.err = "nil"
          /\ (\/ ChannelJoin(Detached, room) \/ ChannelLeave(Detached, room)
              \/ ChannelAmount(Detached, room) \/ ChannelList(Detached, room)
              \/ ChannelBroadcast(Detached, room) \/ ChannelClose(Detached)) =>
               UNCHANGED <<channels, rooms, sids, st, out, bc, nb, emits>>
      ]_vars
  /\ [](/\ Detached \notin DOMAIN rooms
        /\ \A r \in DOMAIN channels : Detached \notin channels[r]
        /\ \A k \in DOMAIN sids : sids[k] # Detached)

\* Join was refused on the detached channel while a room has two members
C12_Witness ==
  /\ ret.op = "Join" /\ ret.server = "nil" /\ ret.err = "ErrorServerNotSet"
  /\ \E room \in RoomNames : Amount(room) = 2

\* the sid registry, its writers and its queries
NextSids ==
  \/ SetupEventLoopStep
  \/ onConnectStoreStep
  \/ closeChannelStep
  \/ onDisconnectCleanupStep
  \/ deleteSidStep
  \/ GetChannelStep
  \/ CountSids

SidSpec == InitRegistry /\ [][NextSids]_vars

\* C13: GetChannel(sid) returns ErrorConnectionNotFound and no channel exactly
\* when sid is not a key of the sid registry, else the channel stored under sid
\* and no error; it does not change the registry; AmountOfSids returns the
\* number of keys.
C13_GetChannel ==
  [][/\ \A sid \in AskedSids :
          GetChannel(sid) =>
            /\ ret'.err = "ErrorConnectionNotFound" <=> sid \notin DOMAIN sids
            /\ sid \notin DOMAIN sids => ret'.list = <<>>
            /\ sid \in DOMAIN sids => ret'.list = <<sids[sid]>> /\ ret'.err = "nil"
            /\ sids' = sids
     /\ CountSids => ret'.n = Cardinality(DOMAIN sids) /\ sids' = sids
    ]_vars

\* the sid of a channel was found while it was registered, and is looked up
\* again after deleteSid: the returned channel is now closed and unregistered
C13_Witness ==
  \E c \in Chans :
    /\ ret.op = "GetChannel" /\ ret.list = <<c>>
    /\ st[c] = "Closed" /\ ~Has(sids, Id(c))
    /\ \E d \in Chans : Has(sids, Id(d))

\* ---------------------------------------------------- response headers
AllowOrigin == "Access-Control-Allow-Origin"
AllowCredentials == "Access-Control-Allow-Credentials"
CORSNames == {AllowOrigin, AllowCredentials}
\* the header names and values the callers use
HeaderNames == CORSNames \cup {"X-Powered-By"}
Domains == {"a.example", "b.example"}
HeaderValues == Domains \cup {"true", "false"}

EnableCORSReset(domain) ==
  /\ headers' = MapPut(MapPut(<<>>, AllowOrigin, domain), AllowCredentials, "true")
  /\ ret' = Returned("EnableCORS", "Server", 0, <<>>, "nil")
  /\ UNCHANGED <<serverVars, ackVars, lk>>
\* Server.EnableCORS
EnableCORS(domain) ==
  /\ headers' = MapPut(MapPut(headers, AllowOrigin, domain), AllowCredentials, "true")
  /\ ret' = Returned("EnableCORS", "Server", 0, <<>>, "nil")
  /\ UNCHANGED <<serverVars, ackVars, lk>>

\* Server.AddHeader
AddHeader(name, value) ==
  /\ headers' = MapPut(headers, name, value)
  /\ ret' = Returned("AddHeader", "Server", 0, <<>>, "nil")
  /\ UNCHANGED <<serverVars, ackVars, lk>>

EnableCORSStep == \E domain \in Domains : EnableCORS(domain)
AddHeaderStep == \E name \in HeaderNames, value \in HeaderValues : AddHeader(name, value)

NextHeaders ==
  \/ EnableCORSStep
  \/ AddHeaderStep

\* the configured response headers of a server
HeaderSpec == InitRegistry /\ [][NextHeaders]_vars

\* C14: EnableCORS(d) sets Access-Control-Allow-Origin to d and
\* Access-Control-Allow-Credentials to "true", adds no other header and changes
\* the value of no other header; AddHeader with another name leaves both of
\* them as they are (present with the same value, or absent).
C14_CORS ==
  [][/\ \A d \in Domains :
          EnableCORS(d) =>
            /\ DOMAIN headers' = DOMAIN headers \cup CORSNames
            /\ headers'[AllowOrigin] = d
            /\ headers'[AllowCredentials] = "true"
            /\ \A h \in DOMAIN headers \ CORSNames : headers'[h] = headers[h]
     /\ \A name \in HeaderNames \ CORSNames, value \in HeaderValues :
          AddHeader(name, value) =>
            \A h \in CORSNames :
              /\ Has(headers', h) <=> Has(headers, h)
              /\ Has(headers, h) => headers'[h] = headers[h]
    ]_vars

\* CORS was enabled next to another header, was enabled again for another
\* domain, and the other header was set again after that
C14_Witness ==
  /\ ret.op = "AddHeader"
  /\ Has(headers, AllowOrigin) /\ headers[AllowOrigin] = "b.example"
  /\ Has(headers, AllowCredentials) /\ headers[AllowCredentials] = "true"
  /\ Has(headers, "X-Powered-By") /\ headers["X-Powered-By"] = "false"

\* ------------------------------------------------- the registry locks
\* The steps of each operation that concern the two registry locks, in program
\* order: Lock / RLock, the deferred Unlock / RUnlock at the return, and the
\* tasks it spawns with "go" on the way (they run as tasks of their own).
Acquire(kind, lock) == [kind |-> kind, lock |-> lock]
WriteLocked(lock, spawned) ==
  <<Acquire("Lock", lock)>> \o [i \in 1..Len(spawned) |-> Acquire("go", spawned[i])]
    \o <<Acquire("Unlock", lock)>>
ReadLocked(lock, spawned) ==
  <<Acquire("RLock", lock)>> \o [i \in 1..Len(spawned) |-> Acquire("go", spawned[i])]
    \o <<Acquire("RUnlock", lock)>>

LockOps ==
  {"GetChannel", "Join", "Leave", "Amount", "List", "Channel.BroadcastTo",
   "Server.BroadcastTo", "BroadcastToAll", "onConnectStore",
   "onDisconnectCleanup", "deleteSid", "AmountOfSids", "AmountOfRooms"}

LockScriptNested(op) ==
  IF op = "onConnectStore"
  THEN <<Acquire("Lock", "sidsLock"), Acquire("Lock", "channelsLock"),
         Acquire("Unlock", "channelsLock"), Acquire("Unlock", "sidsLock")>>
  ELSE ReadLocked("channelsLock", <<>>)
LockScript(op) ==
  CASE op \in {"Join", "Leave"} -> WriteLocked("channelsLock", <<>>)
    [] op \in {"Amount", "List", "AmountOfRooms"} -> ReadLocked("channelsLock", <<>>)
    [] op \in {"Channel.BroadcastTo", "Server.BroadcastTo"} ->
         ReadLocked("channelsLock", <<"Emit">>)
    [] op = "BroadcastToAll" -> ReadLocked("sidsLock", <<"Emit">>)
    [] op \in {"GetChannel", "AmountOfSids"} -> ReadLocked("sidsLock", <<>>)
    [] op = "onConnectStore" -> WriteLocked("sidsLock", <<"SchedulePing">>)
    [] op = "onDisconnectCleanup" -> WriteLocked("channelsLock", <<"deleteSid">>)
    [] op = "deleteSid" -> WriteLocked("sidsLock", <<>>)

\* sync.RWMutex: who holds lock, and how
Holders(lock, mode) ==
  {t \in Tasks : \E i \in 1..Len(lk[t].held) :
                   lk[t].held[i].lock = lock /\ lk[t].held[i].mode = mode}

\* the task goes on to the next step of its operation, and is out of it after
\* the last
Advance(t, held) ==
  IF lk[t].pc = Len(LockScript(lk[t].op))
  THEN IdleLk
  ELSE [op |-> lk[t].op, pc |-> lk[t].pc + 1, held |-> held]

\* a task enters one of the operations
LkCall(t, op) ==
  /\ lk[t].op = "none"
  /\ lk' = [lk EXCEPT ![t] = [op |-> op, pc |-> 1, held |-> <<>>]]
  /\ UNCHANGED <<serverVars, ackVars, ret, headers>>

\* Lock: waits until nobody else holds the lock; RLock: until no writer does
LkAcquire(t) ==
  /\ lk[t].op # "none"
  /\ LET e == LockScript(lk[t].op)[lk[t].pc]
     IN /\ e.kind \in {"Lock", "RLock"}
        /\ Holders(e.lock, "w") \ {t} = {}
        /\ e.kind = "Lock" => Holders(e.lock, "r") \ {t} = {}
        /\ lk' = [lk EXCEPT ![t] =
                    Advance(t, Append(lk[t].held,
                                      [lock |-> e.lock,
                                       mode |-> IF e.kind = "Lock" THEN "w" ELSE "r"]))]
  /\ UNCHANGED <<serverVars, ackVars, ret, headers>>

\* "go f(...)": the spawned task takes its locks as a task of its own
LkGo(t) ==
  /\ lk[t].op # "none"
  /\ LockScript(lk[t].op)[lk[t].pc].kind = "go"
  /\ lk' = [lk EXCEPT ![t] = Advance(t, lk[t].held)]
  /\ UNCHANGED <<serverVars, ackVars, ret, headers>>

\* the deferred Unlock / RUnlock
LkRelease(t) ==
  /\ lk[t].op # "none"
  /\ LET e == LockScript(lk[t].op)[lk[t].pc]
         Other(h) == h.lock # e.lock
     IN /\ e.kind \in {"Unlock", "RUnlock"}
        /\ lk' = [lk EXCEPT ![t] = Advance(t, SelectSeq(lk[t].held, Other))]
  /\ UNCHANGED <<serverVars, ackVars, ret, headers>>

LkCallStep == \E t \in Tasks, op \in LockOps : LkCall(t, op)
LkAcquireStep == \E t \in Tasks : LkAcquire(t)
LkGoStep == \E t \in Tasks : LkGo(t)
LkReleaseStep == \E t \in Tasks : LkRelease(t)

NextLock ==
  \/ LkCallStep
  \/ LkAcquireStep
  \/ LkGoStep
  \/ LkReleaseStep

\* concurrent tasks, each in any of the operations that take a registry lock
LockSpec == InitRegistry /\ [][NextLock]_vars

\* C16: no task takes channelsLock while it holds sidsLock: in the locks a task
\* holds, in the order it took them, sidsLock never comes before channelsLock.
C16_LockOrder ==
  \A t \in Tasks :
    \A i, j \in 1..Len(lk[t].held) :
      i < j => ~(lk[t].held[i].lock = "sidsLock" /\ lk[t].held[j].lock = "channelsLock")

\* the disconnection hook holds channelsLock after it has spawned deleteSid,
\* while another task, in deleteSid, holds sidsLock
C16_Witness ==
  \E t, u \in Tasks :
    /\ lk[t].op = "onDisconnectCleanup" /\ lk[t].pc = 3
    /\ lk[t].held = <<[lock |-> "channelsLock", mode |-> "w"]>>
    /\ lk[u].op = "deleteSid"
    /\ lk[u].held = <<[lock |-> "sidsLock", mode |-> "w"]>>

\* ---------------------------------------------------- ACK correlator
\* ackProcessor.addWaiter, removeWaiter, getWaiter on the waiter map
removeWaiterNoop(m, id) == m
addWaiter(m, id, w) == MapPut(m, id, w)
removeWaiter(m, id) == MapDelete(m, id)
getWaiterAny(m, id) ==
  [waiter |-> IF Has(m, id) THEN m[id] ELSE 1, err |-> "nil"]
getWaiter(m, id) ==
  IF Has(m, id)
  THEN [waiter |-> m[id], err |-> "nil"]
  ELSE [waiter |-> 0, err |-> "ErrorWaiterNotFound"]

getNextIdNoIncrement(k) ==
  /\ call[k].pc = "idle"
  /\ counter' = counter
  /\ call' = [call EXCEPT ![k] = [@ EXCEPT !.pc = "alloc", !.id = counter + 1]]
  /\ UNCHANGED <<serverVars, apiVars, resultWaitersMap, dl, ackClosed>>
\* ackProcessor.getNextId, by caller k of emit-with-ack: under counterLock the
\* counter is incremented and returned
getNextId(k) ==
  /\ call[k].pc = "idle"
  /\ counter' = counter + 1
  /\ call' = [call EXCEPT ![k] = [@ EXCEPT !.pc = "alloc", !.id = counter + 1]]
  /\ UNCHANGED <<serverVars, apiVars, resultWaitersMap, dl, ackClosed>>

\* emit-with-ack parks its slot under the id and starts to wait (the EVENT
\* carrying the id goes to the outbound queue)
AckPark(k) ==
  /\ call[k].pc = "alloc"
  /\ resultWaitersMap' = addWaiter(resultWaitersMap, call[k].id, k)
  /\ call' = [call EXCEPT ![k].pc = "waiting"]
  /\ UNCHANGED <<serverVars, apiVars, counter, dl, ackClosed>>

\* the deadline of the call expires: the waiter is removed, Timeout is returned
AckTimeout(k) ==
  /\ call[k].pc = "waiting"
  /\ resultWaitersMap' = removeWaiter(resultWaitersMap, call[k].id)
  /\ call' = [call EXCEPT ![k] = [@ EXCEPT !.pc = "done", !.result = "Timeout", !.n = @ + 1]]
  /\ UNCHANGED <<serverVars, apiVars, counter, dl, ackClosed>>

\* the channel is closed
AckCloseChannel ==
  /\ ~ackClosed
  /\ ackClosed' = TRUE
  /\ UNCHANGED <<serverVars, apiVars, counter, resultWaitersMap, call, dl>>

\* a parked waiter of a closed channel is released: removed, Closed is returned
AckRelease(k) ==
  /\ ackClosed
  /\ call[k].pc = "waiting"
  /\ resultWaitersMap' = removeWaiter(resultWaitersMap, call[k].id)
  /\ call' = [call EXCEPT ![k] = [@ EXCEPT !.pc = "done", !.result = "Closed", !.n = @ + 1]]
  /\ UNCHANGED <<serverVars, apiVars, counter, dl, ackClosed>>

\* an ACK reply for ack id arrives: the delivery looks the waiter up, and drops
\* the reply (and is over) when there is none
DeliverGet(j, id) ==
  /\ dl[j].pc = "idle"
  /\ LET r == getWaiter(resultWaitersMap, id)
     IN dl' = [dl EXCEPT ![j] =
                 IF r.err = "nil"
                 THEN [pc |-> "hand", id |-> id, w |-> r.waiter]
                 ELSE IdleDl]
  /\ UNCHANGED <<serverVars, apiVars, counter, resultWaitersMap, call, ackClosed>>

\* the delivery hands the value to the slot: a rendezvous with the waiting call
DeliverHand(j) ==
  /\ dl[j].pc = "hand"
  /\ call[dl[j].w].pc = "waiting"
  /\ call' = [call EXCEPT ![dl[j].w] = [@ EXCEPT !.pc = "done", !.result = "value", !.n = @ + 1]]
  /\ dl' = [dl EXCEPT ![j].pc = "remove"]
  /\ UNCHANGED <<serverVars, apiVars, counter, resultWaitersMap, ackClosed>>

\* the delivery removes the registration, and is over
DeliverRemove(j) ==
  /\ dl[j].pc = "remove"
  /\ resultWaitersMap' = removeWaiter(resultWaitersMap, dl[j].id)
  /\ dl' = [dl EXCEPT ![j] = IdleDl]
  /\ UNCHANGED <<serverVars, apiVars, counter, call, ackClosed>>

getNextIdStep == \E k \in Callers : getNextId(k)
AckParkStep == \E k \in Callers : AckPark(k)
AckTimeoutStep == \E k \in Callers : AckTimeout(k)
AckReleaseStep == \E k \in Callers : AckRelease(k)
DeliverGetStep == \E j \in Repliers, id \in Callers : DeliverGet(j, id)
DeliverHandStep == \E j \in Repliers : DeliverHand(j)
DeliverRemoveStep == \E j \in Repliers : DeliverRemove(j)

NextAck ==
  \/ getNextIdStep
  \/ AckParkStep
  \/ AckTimeoutStep
  \/ AckCloseChannel
  \/ AckReleaseStep
  \/ DeliverGetStep
  \/ DeliverHandStep
  \/ DeliverRemoveStep

\* one channel's ACK correlator; the started calls and deliveries go on, timers
\* fire and a closed channel releases its waiters (calls and replies may never
\* come, and the channel may never close)
AckSpec ==
  /\ InitRegistry
  /\ [][NextAck]_vars
  /\ WF_vars(AckParkStep)
  /\ WF_vars(AckTimeoutStep)
  /\ WF_vars(AckReleaseStep)
  /\ WF_vars(DeliverHandStep)
  /\ WF_vars(DeliverRemoveStep)

Allocated == {k \in Callers : call[k].id # 0}

\* C17: the ids getNextId has returned are pairwise distinct and are 1, 2, ...,
\* counter; each call returns the number of calls so far, which is above every
\* id returned before.
C17_AckIds ==
  /\ [](/\ \A k, l \in Allocated : k # l => call[k].id # call[l].id
        /\ {call[k].id : k \in Allocated} = 1..counter)
  /\ [][\A k \in Callers :
          getNextId(k) =>
            /\ call'[k].id = Cardinality(Allocated) + 1
            /\ \A l \in Allocated : call[l].id < call'[k].id
      ]_vars

\* every caller holds its id and none has parked yet: the calls were concurrent
C17_Witness ==
  /\ counter = MaxAcks
  /\ \A k \in Callers : call[k].pc = "alloc"

C19_ClosedInNoRoom ==
  \A c \in Chans :
    st[c] = "Closed" => ~Has(rooms, c) /\ \A r \in RoomNames : c \notin Members(r)

\* ------------------------------------- scenario: consecutive broadcasts
\* Channels connect and join rooms, and one caller issues broadcasts one after
\* the other, each after the one before has returned; nobody leaves or closes.
InitOrder ==
  /\ InitServer
  /\ binaryMessage = FALSE
  /\ s4 = [phase |-> "order", c1 |-> 0, c2 |-> 0, r1 |-> 0, r2 |-> 0]

NextOrder ==
  \/ SetupEventLoopStep
  \/ onConnectStoreStep
  \/ JoinStep
  \/ ChannelBroadcastToStep
  \/ ServerBroadcastToStep
  \/ BroadcastToAll
  \/ BroadcastIterStep
  \/ BroadcastReturn
  \/ EmitStep

OrderSpec == InitOrder /\ [][NextOrder]_vars

\* C20: on every outbound queue the events of consecutive broadcasts are in the
\* order of the broadcasts: the event of an earlier broadcast is enqueued before
\* the event of a later one.
C20_BroadcastOrder ==
  \A c \in Chans :
    \A i, j \in 1..Len(out[c]) :
      (/\ out[c][i].type = EVENT /\ out[c][j].type = EVENT
       /\ out[c][i].ev < out[c][j].ev) => i < j

====
